---- MODULE Spec2Model ----
(***************************************************************************)
(* Model of examples/gp_regression_example.py: the RandomDataModule data   *)
(* partitioner (shuffle, 80/10/10 split, column split, full-batch loader   *)
(* accessors), the VectorDataset wrapper, and the order of operations of   *)
(* main().                                                                 *)
(*                                                                         *)
(* Tensors are sequences of rows, a row is a sequence of numbers.  Python  *)
(* indices are 0-based, TLA+ sequences 1-based; the operators convert.     *)
(* Fractions are kept as tenths (0.8 is 8 over PctDen); for tenths and the *)
(* row counts explored here math.floor(pct * samples) on doubles equals    *)
(* the exact floor.                                                        *)
(***************************************************************************)
EXTENDS Integers, Sequences, FiniteSets, Bags, TLC

VARIABLES
    raw,               \* the `data` argument handed to __init__
    data,              \* self.data
    batch_size,        \* self.batch_size
    train_input_data,  \* self.train_input_data
    train_output_data, \* self.train_output_data
    val_input_data,    \* self.val_input_data
    val_output_data,   \* self.val_output_data
    test_input_data,   \* self.test_input_data
    test_output_data,  \* self.test_output_data
    locals,            \* the locals of the last split computation of setup
    random_indices,    \* the permutation drawn by the last setup call
    prev,              \* permutation and partitions as they were before the last setup call
    setups,            \* number of setup calls so far
    result,            \* the last call on the partitioner and what it returned or raised
    pc,                \* position of main()
    model              \* the (train_input_data, train_output_data) handed to the model

parts == <<train_input_data, train_output_data, val_input_data,
           val_output_data, test_input_data, test_output_data>>
self_vars == <<data, batch_size, train_input_data, train_output_data, val_input_data,
               val_output_data, test_input_data, test_output_data>>
hist_vars == <<raw, random_indices, prev, setups>>
main_vars == <<pc, model>>
vars == <<raw, data, batch_size, train_input_data, train_output_data, val_input_data,
          val_output_data, test_input_data, test_output_data, locals, random_indices,
          prev, setups, result, pc, model>>

----------------------------------------------------------------------------
(* Bounds of the exploration *)

MaxRows == 10
FullPermRows == 3
MaxSetups == 2

(* Program constants *)

train_pct == 8
val_pct == 1
PctDen == 10
input_dim == 1
data_num_workers == 4

----------------------------------------------------------------------------
(* Values *)

Min(a, b) == IF a < b THEN a ELSE b

\* Python's None and a tensor, as values of one shape
None == [tensor |-> FALSE, rows |-> <<>>]
Tensor(rows) == [tensor |-> TRUE, rows |-> rows]

\* Datasets handed to the constructor: rows [x, sin, cos]; kind 1 has pairwise
\* different rows, kind 2 repeats feature values and whole rows.
Row(kind, i) ==
    IF kind = 1 THEN <<i, 100 + i, 200 + i>>
    ELSE <<i % 2, 100 + (i % 3), 200>>
RawDatasets ==
    { [i \in 1..n |-> Row(kind, i)] : n \in 0..MaxRows, kind \in 1..2 }

\* torch.randperm(n): some permutation of 0..n-1.  Every permutation for small n,
\* a family that moves rows across both split points for larger n.
AllPerms(n) ==
    { p \in [1..n -> 0..(n - 1)] : \A i, j \in 1..n : i # j => p[i] # p[j] }
PermFamily(n) ==
    { [i \in 1..n |-> i - 1],
      [i \in 1..n |-> n - i],
      [i \in 1..n |-> i % n],
      [i \in 1..n |-> IF i = 1 THEN n - 1 ELSE IF i = n THEN 0 ELSE i - 1] }
randperm(n) == IF n <= FullPermRows THEN AllPerms(n) ELSE PermFamily(n)

\* tensor[idx]: row i of the result is row idx[i] of the tensor
Reorder(d, idx) == [i \in 1..Len(idx) |-> d[idx[i] + 1]]

\* d[lo:hi] and d[lo:None] for 0 <= lo, hi
Slice(d, lo, hi) == SubSeq(d, lo + 1, Min(hi, Len(d)))
SliceFrom(d, lo) == SubSeq(d, lo + 1, Len(d))

\* math.floor(pct * samples), pct in tenths
FloorMul(pct, samples) == (pct * samples) \div PctDen
CeilMul(pct, samples) == (pct * samples + PctDen - 1) \div PctDen

train_samples_idx(tp, samples) == FloorMul(tp, samples)

val_samples_idx_no_offset(tp, vp, samples) == FloorMul(vp, samples)
val_samples_idx_ceil(tp, vp, samples) ==
    train_samples_idx(tp, samples) + CeilMul(vp, samples)
val_samples_idx(tp, vp, samples) ==
    train_samples_idx(tp, samples) + FloorMul(vp, samples)

train_slice(d, te) == Slice(d, 0, te)
val_slice(d, te, ve) == Slice(d, te, ve)
test_slice_skip(d, ve) == SliceFrom(d, ve + 1)
test_slice(d, ve) == SliceFrom(d, ve)

\* data[:, 0:input_dim] and data[:, input_dim:None]
input_columns(d) == [i \in 1..Len(d) |-> Slice(d[i], 0, input_dim)]
output_columns_skip(d) == [i \in 1..Len(d) |-> SliceFrom(d[i], input_dim + 1)]
output_columns(d) == [i \in 1..Len(d) |-> SliceFrom(d[i], input_dim)]
split_input_output_data(d) == <<Tensor(input_columns(d)), Tensor(output_columns(d))>>

----------------------------------------------------------------------------
(* VectorDataset and the DataLoader built on it *)

VectorDataset(input, output) == [input_data |-> input, output_data |-> output]

\* __len__ is len(self.input_data): a TypeError while input_data is None
len_raises(ds) == ~ds.input_data.tensor
dataset_len(ds) == Len(ds.input_data.rows)

\* __getitem__, idx 0-based
getitem(ds, idx) == <<ds.input_data.rows[idx + 1], ds.output_data.rows[idx + 1]>>

\* torch.utils.data.DataLoader(dataset=, num_workers=, batch_size=): the default
\* sequential sampler is wrapped in a batch sampler, which rejects a batch size
\* that is not positive with a ValueError; nothing reads the dataset yet.
DataLoader_default_batch(ds, num_workers, bs) ==
    [raised |-> "",
     loader |-> <<[dataset |-> ds, num_workers |-> num_workers, batch_size |-> 1]>>]
DataLoader(ds, num_workers, bs) ==
    IF bs <= 0
    THEN [raised |-> "ValueError", loader |-> <<>>]
    ELSE [raised |-> "",
          loader |-> <<[dataset |-> ds, num_workers |-> num_workers, batch_size |-> bs]>>]

\* One epoch over a loader: indices 0..len-1 in order, cut into batches of
\* batch_size (the last one may be short), each batch the collated inputs and
\* outputs.  len(dataset) raises while the dataset holds None.
NumBatches(n, bs) == (n + bs - 1) \div bs
Epoch(ld) ==
    IF len_raises(ld.dataset)
    THEN [raised |-> "TypeError", batches |-> <<>>]
    ELSE LET n == dataset_len(ld.dataset)
             bs == ld.batch_size
         IN [raised |-> "",
             batches |-> [b \in 1..NumBatches(n, bs) |->
                 [input |-> SubSeq(ld.dataset.input_data.rows,
                                   (b - 1) * bs + 1, Min(b * bs, n)),
                  output |-> SubSeq(ld.dataset.output_data.rows,
                                    (b - 1) * bs + 1, Min(b * bs, n))]]]

----------------------------------------------------------------------------
(* RandomDataModule *)

NoLocals ==
    [live |-> FALSE, samples |-> 0, train_pct |-> 0, val_pct |-> 0,
     train_samples_idx |-> 0, val_samples_idx |-> 0]
NoParts == <<None, None, None, None, None, None>>

\* self.batch_size = len(self.data)
init_batch_size_one(d) == 1
init_batch_size(d) == Len(d)

\* __init__(hparams, data), followed by main() being about to call setup
Init ==
    /\ raw \in RawDatasets
    /\ data = raw
    /\ batch_size = init_batch_size(raw)
    /\ train_input_data = None
    /\ train_output_data = None
    /\ val_input_data = None
    /\ val_output_data = None
    /\ test_input_data = None
    /\ test_output_data = None
    /\ locals = NoLocals
    /\ random_indices = <<>>
    /\ prev = [random_indices |-> <<>>, parts |-> NoParts]
    /\ setups = 0
    /\ result = [op |-> "__init__", raised |-> "", loader |-> <<>>]
    /\ pc = "setup"
    /\ model = <<>>

\* the split indices of setup for fractions tp, vp (tenths) and a row count
SplitLocals(tp, vp, samples) ==
    [live |-> TRUE, samples |-> samples, train_pct |-> tp, val_pct |-> vp,
     train_samples_idx |-> train_samples_idx(tp, samples),
     val_samples_idx |-> val_samples_idx(tp, vp, samples)]

\* setup() when torch.randperm returns perm
setup_no_reassign(perm) ==
    LET l == SplitLocals(train_pct, val_pct, Len(data))
        shuffled == Reorder(raw, perm)
        train == split_input_output_data(train_slice(shuffled, l.train_samples_idx))
        val == split_input_output_data(
                   val_slice(shuffled, l.train_samples_idx, l.val_samples_idx))
        test == split_input_output_data(test_slice(shuffled, l.val_samples_idx))
    IN /\ setups < MaxSetups
       /\ random_indices' = perm
       /\ data' = data
       /\ locals' = l
       /\ train_input_data' = train[1]
       /\ train_output_data' = train[2]
       /\ val_input_data' = val[1]
       /\ val_output_data' = val[2]
       /\ test_input_data' = test[1]
       /\ test_output_data' = test[2]
       /\ prev' = [random_indices |-> random_indices, parts |-> parts]
       /\ setups' = setups + 1
       /\ result' = [op |-> "setup", raised |-> "", loader |-> <<>>]
       /\ UNCHANGED <<raw, batch_size>>
setup_perm(perm) ==
    LET l == SplitLocals(train_pct, val_pct, Len(data))
        shuffled == Reorder(data, perm)
        train == split_input_output_data(train_slice(shuffled, l.train_samples_idx))
        val == split_input_output_data(
                   val_slice(shuffled, l.train_samples_idx, l.val_samples_idx))
        test == split_input_output_data(test_slice(shuffled, l.val_samples_idx))
    IN /\ setups < MaxSetups
       /\ random_indices' = perm
       /\ data' = shuffled
       /\ locals' = l
       /\ train_input_data' = train[1]
       /\ train_output_data' = train[2]
       /\ val_input_data' = val[1]
       /\ val_output_data' = val[2]
       /\ test_input_data' = test[1]
       /\ test_output_data' = test[2]
       /\ prev' = [random_indices |-> random_indices, parts |-> parts]
       /\ setups' = setups + 1
       /\ result' = [op |-> "setup", raised |-> "", loader |-> <<>>]
       /\ UNCHANGED <<raw, batch_size>>
setup == \E perm \in randperm(Len(data)) : setup_perm(perm)

Returned(op, r) == [op |-> op, raised |-> r.raised, loader |-> r.loader]

train_dataloader_guarded ==
    /\ result' = IF train_input_data.tensor
                 THEN Returned("train_dataloader",
                          DataLoader(VectorDataset(train_input_data, train_output_data),
                                     data_num_workers, batch_size))
                 ELSE [op |-> "train_dataloader", raised |-> "RuntimeError",
                       loader |-> <<>>]
    /\ UNCHANGED <<self_vars, hist_vars, locals>>
train_dataloader_val_split ==
    /\ result' = Returned("train_dataloader",
           DataLoader(VectorDataset(val_input_data, val_output_data),
                      data_num_workers, batch_size))
    /\ UNCHANGED <<self_vars, hist_vars, locals>>
train_dataloader ==
    /\ result' = Returned("train_dataloader",
           DataLoader(VectorDataset(train_input_data, train_output_data),
                      data_num_workers, batch_size))
    /\ UNCHANGED <<self_vars, hist_vars, locals>>

val_dataloader_reshuffles ==
    /\ result' = Returned("val_dataloader",
           DataLoader(VectorDataset(val_input_data, val_output_data),
                      data_num_workers, batch_size))
    /\ data' = Reorder(data, [i \in 1..Len(data) |-> Len(data) - i])
    /\ UNCHANGED <<batch_size, parts, hist_vars, locals>>
val_dataloader ==
    /\ result' = Returned("val_dataloader",
           DataLoader(VectorDataset(val_input_data, val_output_data),
                      data_num_workers, batch_size))
    /\ UNCHANGED <<self_vars, hist_vars, locals>>

test_dataloader ==
    /\ result' = Returned("test_dataloader",
           DataLoader(VectorDataset(test_input_data, test_output_data),
                      data_num_workers, batch_size))
    /\ UNCHANGED <<self_vars, hist_vars, locals>>

\* Any sequence of calls on one partitioner
Next ==
    \/ setup /\ UNCHANGED main_vars
    \/ train_dataloader /\ UNCHANGED main_vars
    \/ val_dataloader /\ UNCHANGED main_vars
    \/ test_dataloader /\ UNCHANGED main_vars
Spec == Init /\ [][Next]_vars

----------------------------------------------------------------------------
(* The split step of setup on its own, for any fractions in tenths with       *)
(* train_pct + val_pct <= 1 and the row count of the dataset at hand          *)

split_step(tp, vp) ==
    /\ locals' = SplitLocals(tp, vp, Len(data))
    /\ UNCHANGED <<self_vars, hist_vars, result, main_vars>>

SplitNext ==
    \E tp \in 0..PctDen, vp \in 0..PctDen : tp + vp <= PctDen /\ split_step(tp, vp)
SplitSpec == Init /\ [][SplitNext]_vars

----------------------------------------------------------------------------
(* main(): construct, setup, hand the train partition to the model, then the  *)
(* trainer's tune, fit and test phases, which fetch their loaders from the    *)
(* data module.  An exception of a loader accessor ends main.                 *)

AfterCall(next) == IF result'.raised # "" THEN "crashed" ELSE next

main_setup ==
    /\ pc = "setup"
    /\ setup
    /\ pc' = "model"
    /\ UNCHANGED model

main_model ==
    /\ pc = "model"
    /\ model' = <<train_input_data, train_output_data>>
    /\ pc' = "tune"
    /\ UNCHANGED <<self_vars, hist_vars, locals, result>>

main_tune ==
    /\ pc = "tune"
    /\ pc' = "fit"
    /\ UNCHANGED <<self_vars, hist_vars, locals, result, model>>

main_fit_train_dataloader ==
    /\ pc = "fit"
    /\ train_dataloader
    /\ pc' = AfterCall("fit")
    /\ UNCHANGED model

main_fit_val_dataloader ==
    /\ pc = "fit"
    /\ val_dataloader
    /\ pc' = AfterCall("fit")
    /\ UNCHANGED model

main_fit ==
    /\ pc = "fit"
    /\ pc' = "test"
    /\ UNCHANGED <<self_vars, hist_vars, locals, result, model>>

main_test_dataloader ==
    /\ pc = "test"
    /\ test_dataloader
    /\ pc' = AfterCall("test")
    /\ UNCHANGED model

main_test ==
    /\ pc = "test"
    /\ pc' = "done"
    /\ UNCHANGED <<self_vars, hist_vars, locals, result, model>>

MainNext ==
    \/ main_setup
    \/ main_model
    \/ main_tune
    \/ main_fit_train_dataloader
    \/ main_fit_val_dataloader
    \/ main_fit
    \/ main_test_dataloader
    \/ main_test
MainSpec == Init /\ [][MainNext]_vars

----------------------------------------------------------------------------
(* Vocabulary of the properties *)

LoaderOps == {"train_dataloader", "val_dataloader", "test_dataloader"}

\* [a, b) as a set of indices
IndexRange(a, b) == {i \in a..(b - 1) : a <= i /\ i < b}

\* the rows of a partition, features and targets joined again
JoinedRows(input, output) ==
    [i \in 1..Len(input.rows) |-> input.rows[i] \o output.rows[i]]
PartitionRows(p) ==
    JoinedRows(p[1], p[2]) \o JoinedRows(p[3], p[4]) \o JoinedRows(p[5], p[6])
PartitionSizes(p) == <<Len(p[1].rows), Len(p[3].rows), Len(p[5].rows)>>

RowSet(rows) == {rows[i] : i \in DOMAIN rows}
RowBag(rows) ==
    [r \in RowSet(rows) |-> Cardinality({i \in DOMAIN rows : rows[i] = r})]
Distinct(rows) == \A i, j \in DOMAIN rows : i # j => rows[i] # rows[j]

\* the partition a loader accessor wraps
PartitionOf(op) ==
    IF op = "train_dataloader" THEN VectorDataset(train_input_data, train_output_data)
    ELSE IF op = "val_dataloader" THEN VectorDataset(val_input_data, val_output_data)
    ELSE VectorDataset(test_input_data, test_output_data)

Identity(perm) == \A i \in DOMAIN perm : perm[i] = i - 1

----------------------------------------------------------------------------
(* C1: for every row count and every pair of fractions with train_pct +      *)
(* val_pct <= 1, the ranges [0, train_end), [train_end, val_end) and         *)
(* [val_end, total_rows) are pairwise disjoint, cover 0..total_rows-1 and    *)
(* their sizes sum to total_rows; the three slices of the data have these    *)
(* sizes.                                                                    *)
C1_RangesPartitionRows ==
    locals.live =>
        LET n == locals.samples
            te == locals.train_samples_idx
            ve == locals.val_samples_idx
            tr == IndexRange(0, te)
            va == IndexRange(te, ve)
            ts == IndexRange(ve, n)
        IN /\ tr \cap va = {}
           /\ tr \cap ts = {}
           /\ va \cap ts = {}
           /\ tr \cup va \cup ts = IndexRange(0, n)
           /\ Cardinality(tr) + Cardinality(va) + Cardinality(ts) = n
           /\ Len(train_slice(data, te)) = Cardinality(tr)
           /\ Len(val_slice(data, te, ve)) = Cardinality(va)
           /\ Len(test_slice(data, ve)) = Cardinality(ts)

\* a split with three non-empty ranges in which flooring loses part of a row
C1_Witness ==
    /\ locals.live
    /\ 0 < locals.train_samples_idx
    /\ locals.train_samples_idx < locals.val_samples_idx
    /\ locals.val_samples_idx < locals.samples
    /\ (locals.train_pct * locals.samples) % PctDen # 0
    /\ locals.train_pct + locals.val_pct = PctDen

(* C7 as stated: the size of the test range is total_rows - train_end -       *)
(* val_end.                                                                    *)
C7_TestSizeAsStated ==
    locals.live =>
        Cardinality(IndexRange(locals.val_samples_idx, locals.samples))
            = locals.samples - locals.train_samples_idx - locals.val_samples_idx

(* C7 amended: the size of the test range is total_rows - val_end, which is   *)
(* total_rows - train_end - floor(val_pct * total_rows), val_end already       *)
(* holding train_end; the test slice has that many rows.                       *)
C7_TestSizeIsRemainder ==
    locals.live =>
        LET n == locals.samples
            te == locals.train_samples_idx
            ve == locals.val_samples_idx
        IN /\ Cardinality(IndexRange(ve, n)) = n - ve
           /\ n - ve = n - te - ((locals.val_pct * n) \div PctDen)
           /\ Len(test_slice(data, ve)) = n - ve

\* a split whose train, validation and test ranges are all non-empty
C7_Witness ==
    /\ locals.live
    /\ 0 < locals.train_samples_idx
    /\ locals.train_samples_idx < locals.val_samples_idx
    /\ locals.val_samples_idx < locals.samples
    /\ (locals.val_pct * locals.samples) % PctDen # 0

(* C2: after one or more setup calls the three partitions together hold      *)
(* exactly the rows given at construction, each as often as it was given,     *)
(* and rows that were given once appear in one partition only.                *)
C2_PartitionsHoldRawRows ==
    setups >= 1 =>
        /\ RowBag(PartitionRows(parts)) = RowBag(raw)
        /\ Len(PartitionRows(parts)) = Len(raw)
        /\ Distinct(raw) =>
               LET tr == RowSet(JoinedRows(train_input_data, train_output_data))
                   va == RowSet(JoinedRows(val_input_data, val_output_data))
                   ts == RowSet(JoinedRows(test_input_data, test_output_data))
               IN tr \cap va = {} /\ tr \cap ts = {} /\ va \cap ts = {}

\* two setup calls that left three non-empty partitions in a new row order
C2_Witness ==
    /\ setups = 2
    /\ Len(train_input_data.rows) > 0
    /\ Len(val_input_data.rows) > 0
    /\ Len(test_input_data.rows) > 0
    /\ data # raw

(* C3: after setup, for every partition and every index i below its length,  *)
(* get(i) is (first input_dim columns, remaining columns) of one raw row.     *)
C3_PairsComeFromOneRawRow ==
    setups >= 1 =>
        \A op \in LoaderOps :
            LET ds == PartitionOf(op)
            IN /\ ~len_raises(ds)
               /\ Len(ds.output_data.rows) = dataset_len(ds)
               /\ \A i \in 0..(dataset_len(ds) - 1) :
                      \E j \in 1..Len(raw) :
                          getitem(ds, i) =
                              <<SubSeq(raw[j], 1, input_dim),
                                SubSeq(raw[j], input_dim + 1, Len(raw[j]))>>

\* a shuffle that moved rows, with rows to get in all three partitions
C3_Witness ==
    /\ setups >= 1
    /\ ~Identity(random_indices)
    /\ \A op \in LoaderOps : dataset_len(PartitionOf(op)) > 0
    /\ getitem(PartitionOf("train_dataloader"), 0) # <<<<raw[1][1]>>, <<raw[1][2], raw[1][3]>>>>

(* C4 as stated: every loader obtained after setup has the row count of the   *)
(* partition it wraps as its batch size (0 for an empty partition) and        *)
(* iterating it raises nothing.                                               *)
C4_BatchSizeIsPartitionRows ==
    (setups >= 1 /\ result.op \in LoaderOps /\ Len(result.loader) = 1) =>
        /\ result.loader[1].batch_size = dataset_len(result.loader[1].dataset)
        /\ Epoch(result.loader[1]).raised = ""

(* C4 amended: a loader obtained after setup wraps the accessor's partition   *)
(* and has the row count of the whole dataset given at construction as its    *)
(* batch size, which is never less than the partition's row count; an empty   *)
(* partition of a non-empty dataset gives a loader that produces no batch and *)
(* raises nothing; for a dataset of no rows the accessor raises the loader's  *)
(* ValueError (batch size 0) and returns no loader.                           *)
C4_BatchSizeIsTotalRows ==
    (setups >= 1 /\ result.op \in LoaderOps) =>
        IF Len(raw) = 0
        THEN result.raised = "ValueError" /\ result.loader = <<>>
        ELSE /\ result.raised = ""
             /\ Len(result.loader) = 1
             /\ LET ld == result.loader[1]
                IN /\ ld.dataset = PartitionOf(result.op)
                   /\ ld.batch_size = Len(raw)
                   /\ ld.batch_size >= dataset_len(ld.dataset)
                   /\ ld.num_workers = data_num_workers
                   /\ dataset_len(ld.dataset) = 0 =>
                          Epoch(ld) = [raised |-> "", batches |-> <<>>]

\* the validation loader of a two-row dataset: an empty partition, batch size 2
C4_Witness ==
    /\ setups >= 1
    /\ result.op = "val_dataloader"
    /\ Len(result.loader) = 1
    /\ dataset_len(result.loader[1].dataset) = 0
    /\ result.loader[1].batch_size = 2

(* C5 as stated: a loader accessor called before any setup ends in an error   *)
(* and returns no loader.                                                      *)
C5_LoaderBeforeSetupRaises ==
    (setups = 0 /\ result.op \in LoaderOps) =>
        result.raised # "" /\ result.loader = <<>>

(* C5 amended: a loader accessor called before any setup checks nothing: for  *)
(* a non-empty dataset it returns a loader over a dataset whose features and  *)
(* targets are both None, with the dataset's row count as batch size, and the *)
(* failure (a TypeError of len(None)) comes only when the loader is iterated; *)
(* for a dataset of no rows it raises the loader's ValueError (batch size 0). *)
C5_LoaderBeforeSetupWrapsNone ==
    (setups = 0 /\ result.op \in LoaderOps) =>
        IF Len(raw) = 0
        THEN result.raised = "ValueError" /\ result.loader = <<>>
        ELSE /\ result.raised = ""
             /\ Len(result.loader) = 1
             /\ result.loader[1].dataset = VectorDataset(None, None)
             /\ result.loader[1].batch_size = Len(raw)
             /\ Epoch(result.loader[1]).raised = "TypeError"

\* train_dataloader called on a freshly constructed partitioner with rows
C5_Witness ==
    /\ setups = 0
    /\ result.op = "train_dataloader"
    /\ Len(raw) > 0
    /\ Len(result.loader) = 1

(* C6 as stated: two setup calls that draw the same permutation leave the     *)
(* same partitions, the same rows in the same order.                           *)
C6_SamePermutationSamePartitions ==
    (setups >= 2 /\ random_indices = prev.random_indices) =>
        parts = prev.parts

(* C6 amended: two setup calls that draw the same permutation leave           *)
(* partitions of the same sizes, and the second call's rows (train, then      *)
(* validation, then test) are the first call's rows reordered once more by    *)
(* that permutation, setup shuffling the already shuffled self.data; the      *)
(* partitions are the same when the permutation is the identity.              *)
C6_SamePermutationAppliedAgain ==
    (setups >= 2 /\ random_indices = prev.random_indices) =>
        LET new == PartitionRows(parts)
            old == PartitionRows(prev.parts)
        IN /\ PartitionSizes(parts) = PartitionSizes(prev.parts)
           /\ Len(new) = Len(old)
           /\ \A i \in 1..Len(new) : new[i] = old[random_indices[i] + 1]
           /\ Identity(random_indices) => parts = prev.parts

\* the same permutation drawn twice, with partitions that differ afterwards
C6_Witness ==
    /\ setups >= 2
    /\ random_indices = prev.random_indices
    /\ ~Identity(random_indices)
    /\ parts # prev.parts

(* C8: every step that is not a setup call (every loader accessor call, in    *)
(* any state and any order) leaves self.data, self.batch_size and the six     *)
(* partition fields as they were.                                              *)
C8_OnlySetupChangesState ==
    [][setups' = setups => UNCHANGED <<data, batch_size, parts>>]_vars

\* a loader accessor has been called between and after two setup calls
C8_Witness ==
    /\ setups = 2
    /\ result.op \in LoaderOps
    /\ Len(result.loader) = 1
    /\ data # raw

(* C9 as stated: after setup, one epoch over the loader obtained for any      *)
(* partition of any dataset is exactly one batch, holding every row of the    *)
(* partition.                                                                  *)
C9_OneBatchPerEpoch ==
    (setups >= 1 /\ result.op \in LoaderOps /\ Len(result.loader) = 1) =>
        LET ld == result.loader[1]
            e == Epoch(ld)
        IN /\ e.raised = ""
           /\ Len(e.batches) = 1
           /\ e.batches[1] = [input |-> ld.dataset.input_data.rows,
                              output |-> ld.dataset.output_data.rows]

(* C9 amended: after setup on a non-empty dataset, one epoch over the loader  *)
(* of a non-empty partition is exactly one batch, holding every row of the    *)
(* partition in order, and one epoch over the loader of an empty partition is *)
(* no batch at all (for a dataset of no rows the accessor returns no loader). *)
C9_OneBatchUnlessEmpty ==
    (setups >= 1 /\ result.op \in LoaderOps) =>
        /\ Len(result.loader) = 1 <=> Len(raw) > 0
        /\ Len(result.loader) = 1 =>
               LET ld == result.loader[1]
                   e == Epoch(ld)
               IN /\ e.raised = ""
                  /\ IF dataset_len(ld.dataset) > 0
                     THEN /\ Len(e.batches) = 1
                          /\ e.batches[1] = [input |-> ld.dataset.input_data.rows,
                                             output |-> ld.dataset.output_data.rows]
                     ELSE e.batches = <<>>

\* the train loader of a dataset whose train partition has several rows
C9_Witness ==
    /\ setups >= 1
    /\ result.op = "train_dataloader"
    /\ Len(result.loader) = 1
    /\ dataset_len(result.loader[1].dataset) >= 2
    /\ Len(Epoch(result.loader[1]).batches) = 1

(* C10: in main's order (construct, setup, model built from the train         *)
(* partition, then tune, fit and test), every train loader obtained wraps     *)
(* the very features and targets the model was built from, same rows, same    *)
(* order.                                                                      *)
C10_ModelDataIsTrainLoaderData ==
    (pc \in {"tune", "fit", "test", "done", "crashed"}
        /\ result.op = "train_dataloader" /\ Len(result.loader) = 1) =>
        /\ Len(model) = 2
        /\ model[1].tensor /\ model[2].tensor
        /\ result.loader[1].dataset.input_data = model[1]
        /\ result.loader[1].dataset.output_data = model[2]

\* the fit phase fetched the train loader of a shuffled ten-row dataset
C10_Witness ==
    /\ pc \in {"fit", "test", "done"}
    /\ result.op = "train_dataloader"
    /\ Len(result.loader) = 1
    /\ dataset_len(result.loader[1].dataset) = 8
    /\ ~Identity(random_indices)

====
